---- MODULE Spec2Model ----
(***************************************************************************)
(* gobank: the account table of storage.go and the funds transfer          *)
(* PostgresStore.TransferFunds runs against it, one database transaction   *)
(* per call, under PostgreSQL's read-committed isolation with row locks    *)
(* (SELECT ... FOR UPDATE, UPDATE) and its deadlock detector; and the HTTP  *)
(* handlers of api.go that call the store.                                 *)
(***************************************************************************)
EXTENDS Integers, Sequences, FiniteSets, TLC

(* ------------------------------ bounds --------------------------------- *)

\* Rows the serial id sequence hands out (ids 1..MaxAccounts).
MaxAccounts == 2

\* TransferFunds calls a behaviour holds at most (one goroutine and one
\* transaction each).
NumTransfers == 3

\* Significand width of the balance type. Go's float64 has 53 bits, more than
\* TLC's integers hold; the model keeps the format (round to nearest, ties to
\* even) at a width whose roundings a bounded search reaches.
MantBits == 3

\* The row ids of the table: the serial sequence hands out 1..MaxAccounts while
\* accounts are created and deleted; the tables the dedicated specifications
\* start from hold up to two rows more.
Ids == 1..(MaxAccounts + 2)
Transfers == 1..NumTransfers
\* The IBAN strings NewAccount's random draw produces: two, so that the IBANs
\* of two rows may differ and may collide.
Ibans == {1, 2}

\* The TransferFunds calls the request layer issues while accounts are created
\* and deleted (Spec): two concurrent ones.
Callers == {1, 2}

(* --------------------------- float64 arithmetic ------------------------ *)

RECURSIVE Pow2(_)
Pow2(n) == IF n = 0 THEN 1 ELSE 2 * Pow2(n - 1)

\* The spacing of representable values around magnitude m: 1 below
\* 2^MantBits, doubling with every further binade.
RECURSIVE Quantum(_)
Quantum(m) == IF m < Pow2(MantBits) THEN 1 ELSE 2 * Quantum(m \div 2)

\* Round a magnitude to the nearest representable value, ties to the even
\* significand.
RoundMag(m) ==
    LET q == Quantum(m)
        n == m \div q
        rem == m - n * q
    IN  IF 2 * rem < q THEN n * q
        ELSE IF 2 * rem > q THEN (n + 1) * q
        ELSE IF n % 2 = 0 THEN n * q ELSE (n + 1) * q

\* The float64 nearest to the exact value v.
Float64(v) == IF v < 0 THEN -RoundMag(-v) ELSE RoundMag(v)

Representable(v) == Float64(v) = v

\* One whole currency unit, in quanta of the finest amount a request carries:
\* NewAccount draws whole numbers, a request's amount is any float64.
Unit == Pow2(MantBits - 1)

\* float64(rand.Intn(1000000)): whole, non-negative, exactly representable.
NewBalances == {0, 3 * Unit}

\* TransferRequest.Amount as decoded from the request body: any float64.
Amounts == {-1, 0, 1, Unit + 1}

(* ------------------------------- state --------------------------------- *)

VARIABLES
    account,      \* the committed account table: row id -> the row's other columns
    nextId,       \* the serial sequence behind account.id
    rowLock,      \* row id -> the transfer whose transaction holds its lock, 0 if none
    pc,           \* where each TransferFunds call stands
    fromIban,     \* its arguments
    toIban,
    amount,
    fromAccount,  \* <<balance>> once lockAccount(fromIban) has returned, else <<>>
    toAccount,    \* <<balance>> once lockAccount(toIban) has returned, else <<>>
    txWrites,     \* the transaction's uncommitted balance writes: row id -> balance
    err,          \* what the call returned ("nil" while running and on success)
    request,      \* the /transfer request each call serves: <<[header, body]>>, else <<>>
    reply         \* the response to the latest request of the other routes

vars == <<account, nextId, rowLock, pc, fromIban, toIban, amount,
          fromAccount, toAccount, txWrites, err, request, reply>>

NoWrites == [r \in {} |-> 0]

ErrNoRows == "sql: no rows in result set"
ErrBalance == "Balance not sufficient"
ErrDeadlock == "pq: deadlock detected"
ErrStore == "store error"

\* No request served, no response written.
NoRequest == <<>>
NoReply == [op |-> "none", arg |-> [id |-> 0], code |-> 0, body |-> [status |-> "none"]]

Init ==
    /\ account = [r \in {} |-> [iban |-> 0, balance |-> 0]]
    /\ nextId = 1
    /\ rowLock = [r \in Ids |-> 0]
    /\ pc = [t \in Transfers |-> "idle"]
    /\ fromIban = [t \in Transfers |-> 0]
    /\ toIban = [t \in Transfers |-> 0]
    /\ amount = [t \in Transfers |-> 0]
    /\ fromAccount = [t \in Transfers |-> <<>>]
    /\ toAccount = [t \in Transfers |-> <<>>]
    /\ txWrites = [t \in Transfers |-> NoWrites]
    /\ err = [t \in Transfers |-> "nil"]
    /\ request = [t \in Transfers |-> NoRequest]
    /\ reply = NoReply

(* --------------------------- the account table ------------------------- *)

\* where iban = $1
Matching(iban) == {r \in DOMAIN account : account[r].iban = iban}

\* The balance transaction t sees in row r: its own write, else the committed one.
VisibleBalance(t, r) ==
    IF r \in DOMAIN txWrites[t] THEN txWrites[t][r] ELSE account[r].balance

\* Row locks that make nobody wait.
LockedByOtherNever(t, rows) == FALSE

\* A lock that is not re-entrant: a statement waits while any transaction,
\* its own included, holds the lock of one of the rows.
LockedByOtherOrSelf(t, rows) == \E r \in rows : rowLock[r] # 0

\* A lock on the whole table: a statement waits while another transaction
\* holds the lock of any row.
LockedByOtherTable(t, rows) == \E r \in Ids : rowLock[r] \notin {0, t}

\* Some of the rows is locked by a transaction other than t's: a statement of
\* t that locks them has to wait.
LockedByOther(t, rows) == \E r \in rows : rowLock[r] \notin {0, t}

\* bcrypt.GenerateFromPassword: a hash that only this password verifies.
HashPassword(password) == <<"bcrypt", password>>

\* NewAccount: the request's names, the password's hash, and the draws of
\* rand.Intn for id, IBAN and balance; now is time.Now().UTC(), in
\* nanoseconds.
NewAccount(firstName, lastName, password, id, iban, balance, now) ==
    [id |-> id, firstName |-> firstName, lastName |-> lastName,
     encryptedPassword |-> HashPassword(password), iban |-> iban,
     balance |-> balance, createdAt |-> now]

\* The value a timestamp column keeps of a time: PostgreSQL stores
\* microseconds, and rounds the nanoseconds it is sent to the nearest one.
Timestamp(ns) == ((ns + 500) \div 1000) * 1000

\* The columns of the row "insert into account (first_name, last_name,
\* password, iban, balance, created_at)" stores for acc; acc.ID is not sent.
InsertedRow(acc) ==
    [firstName |-> acc.firstName, lastName |-> acc.lastName,
     encryptedPassword |-> acc.encryptedPassword, iban |-> acc.iban,
     balance |-> acc.balance, createdAt |-> Timestamp(acc.createdAt)]

\* One holder's account as NewAccount builds it, with the IBAN and the
\* balance it drew.
HolderAccount(iban, balance) ==
    NewAccount("first", "last", "p", 0, iban, balance, 0)

\* insert into account ... RETURNING id
CreateAccount(acc) ==
    /\ nextId <= MaxAccounts
    /\ account' = [r \in DOMAIN account \cup {nextId} |->
                      IF r = nextId THEN InsertedRow(acc) ELSE account[r]]
    /\ nextId' = nextId + 1
    /\ UNCHANGED <<rowLock, pc, fromIban, toIban, amount, fromAccount,
                   toAccount, txWrites, err, request>>

\* A delete that does not wait for the row's lock.
DeleteAccountNoWait(id) ==
    /\ account' = [r \in DOMAIN account \ {id} |-> account[r]]
    /\ UNCHANGED <<nextId, rowLock, pc, fromIban, toIban, amount, fromAccount,
                   toAccount, txWrites, err, request>>

\* A delete that removes nothing.
DeleteAccountKeeps(id) ==
    /\ id \in DOMAIN account => rowLock[id] = 0
    /\ UNCHANGED <<account, nextId, rowLock, pc, fromIban, toIban, amount,
                   fromAccount, toAccount, txWrites, err, request>>

\* delete from account where id=$1 (autocommit; waits for the row's lock)
DeleteAccount(id) ==
    /\ id \in DOMAIN account => rowLock[id] = 0
    /\ account' = [r \in DOMAIN account \ {id} |-> account[r]]
    /\ UNCHANGED <<nextId, rowLock, pc, fromIban, toIban, amount, fromAccount,
                   toAccount, txWrites, err, request>>

\* scanAccount: the Account a select returns for row r.
scanAccount(r) ==
    [id |-> r, firstName |-> account[r].firstName, lastName |-> account[r].lastName,
     encryptedPassword |-> account[r].encryptedPassword, iban |-> account[r].iban,
     balance |-> account[r].balance, createdAt |-> account[r].createdAt]

(* ------------------------- the unit of work ---------------------------- *)

\* A commit that also stamps every row it writes with the time of the write.
AfterCommitStamped(t) ==
    [r \in DOMAIN account |->
        IF r \in DOMAIN txWrites[t]
        THEN [account[r] EXCEPT !.balance = txWrites[t][r], !.createdAt = 1000]
        ELSE account[r]]

\* The committed table once transaction t has committed: its writes applied.
AfterCommit(t) ==
    [r \in DOMAIN account |->
        IF r \in DOMAIN txWrites[t]
        THEN [account[r] EXCEPT !.balance = txWrites[t][r]]
        ELSE account[r]]

\* A rollback that lets the transaction's writes through.
AfterRollbackLeaky(t) == AfterCommit(t)

\* The committed table once transaction t has rolled back (defer tx.Rollback()).
AfterRollback(t) == account

\* A transaction whose end releases no lock.
ReleaseLocksNone(t) == rowLock

\* Commit and rollback both release every row lock the transaction holds.
ReleaseLocks(t) == [r \in Ids |-> IF rowLock[r] = t THEN 0 ELSE rowLock[r]]

\* An error return: the deferred tx.Rollback() runs, the call returns e.
ReturnErr(t, e) ==
    /\ account' = AfterRollback(t)
    /\ rowLock' = ReleaseLocks(t)
    /\ txWrites' = [txWrites EXCEPT ![t] = NoWrites]
    /\ err' = [err EXCEPT ![t] = e]
    /\ pc' = [pc EXCEPT ![t] = "done"]

\* A sufficiency check that never refuses.
InsufficientNever(t) == FALSE

\* if amount > fromAccount.Balance
Insufficient(t) == amount[t] > fromAccount[t][1]

\* The statements of TransferFunds that go to the store.
StoreSteps == {"lockFrom", "updateFrom", "lockTo", "updateTo", "commit"}

\* A call TransferFunds(from, to, amt); s.db.Begin() opens its transaction.
\* Calls are numbered in the order they arrive.
TransferFunds(t, from, to, amt) ==
    /\ pc[t] = "idle"
    /\ t \in Callers
    /\ \A u \in Transfers : u < t => (pc[u] # "idle" \/ request[u] # NoRequest)
    /\ pc' = [pc EXCEPT ![t] = "lockFrom"]
    /\ fromIban' = [fromIban EXCEPT ![t] = from]
    /\ toIban' = [toIban EXCEPT ![t] = to]
    /\ amount' = [amount EXCEPT ![t] = amt]
    /\ UNCHANGED <<account, nextId, rowLock, fromAccount, toAccount, txWrites, err,
                   reply>>

\* A read of the source account that takes no lock (a select without FOR
\* UPDATE).
lockAccountFromNoLock(t) ==
    /\ pc[t] = "lockFrom"
    /\ IF Matching(fromIban[t]) = {}
       THEN /\ ReturnErr(t, ErrNoRows)
            /\ UNCHANGED <<nextId, fromIban, toIban, amount, fromAccount, toAccount, request, reply>>
       ELSE /\ \E r \in Matching(fromIban[t]) :
                  fromAccount' = [fromAccount EXCEPT ![t] = <<VisibleBalance(t, r)>>]
            /\ pc' = [pc EXCEPT ![t] = "check"]
            /\ UNCHANGED <<account, nextId, rowLock, fromIban, toIban, amount, toAccount,
                           txWrites, err, request, reply>>

\* fromAccount, err := s.lockAccount(tx, fromIban)
\* SELECT iban, balance ... FOR UPDATE locks every matching row and waits
\* while another transaction holds one (the rows are taken in one step);
\* QueryRow scans the first row returned, whichever the store returns first.
\* Under read committed a statement that had to wait reads the row as its
\* holder committed it.
lockAccountFrom(t) ==
    /\ pc[t] = "lockFrom"
    /\ ~LockedByOther(t, Matching(fromIban[t]))
    /\ IF Matching(fromIban[t]) = {}
       THEN /\ ReturnErr(t, ErrNoRows)
            /\ UNCHANGED <<nextId, fromIban, toIban, amount, fromAccount, toAccount, request, reply>>
       ELSE /\ \E r \in Matching(fromIban[t]) :
                  fromAccount' = [fromAccount EXCEPT ![t] = <<VisibleBalance(t, r)>>]
            /\ rowLock' = [r \in Ids |->
                              IF r \in Matching(fromIban[t]) THEN t ELSE rowLock[r]]
            /\ pc' = [pc EXCEPT ![t] = "check"]
            /\ UNCHANGED <<account, nextId, fromIban, toIban, amount, toAccount,
                           txWrites, err, request, reply>>

\* if amount > fromAccount.Balance { return fmt.Errorf("Balance not sufficient") }
CheckBalance(t) ==
    /\ pc[t] = "check"
    /\ IF Insufficient(t)
       THEN /\ ReturnErr(t, ErrBalance)
            /\ UNCHANGED <<nextId, fromIban, toIban, amount, fromAccount, toAccount, request, reply>>
       ELSE /\ pc' = [pc EXCEPT ![t] = "updateFrom"]
            /\ UNCHANGED <<account, nextId, rowLock, fromIban, toIban, amount,
                           fromAccount, toAccount, txWrites, err, request, reply>>

\* tx.Exec("update account set balance = $2 where iban = $1", iban, balance):
\* writes, and locks, every matching row inside the transaction.
updateBalance(t, iban, balance) ==
    /\ ~LockedByOther(t, Matching(iban))
    /\ txWrites' = [txWrites EXCEPT ![t] =
                       [r \in DOMAIN txWrites[t] \cup Matching(iban) |->
                           IF r \in Matching(iban) THEN balance ELSE txWrites[t][r]]]
    /\ rowLock' = [r \in Ids |-> IF r \in Matching(iban) THEN t ELSE rowLock[r]]

\* updateBalance(fromIban, fromAccount.Balance-amount)
updateBalanceFrom(t) ==
    /\ pc[t] = "updateFrom"
    /\ updateBalance(t, fromIban[t], Float64(fromAccount[t][1] - amount[t]))
    /\ pc' = [pc EXCEPT ![t] = "lockTo"]
    /\ UNCHANGED <<account, nextId, fromIban, toIban, amount, fromAccount,
                   toAccount, err, request, reply>>

\* toAccount, err := s.lockAccount(tx, toIban)
lockAccountTo(t) ==
    /\ pc[t] = "lockTo"
    /\ ~LockedByOther(t, Matching(toIban[t]))
    /\ IF Matching(toIban[t]) = {}
       THEN /\ ReturnErr(t, ErrNoRows)
            /\ UNCHANGED <<nextId, fromIban, toIban, amount, fromAccount, toAccount, request, reply>>
       ELSE /\ \E r \in Matching(toIban[t]) :
                  toAccount' = [toAccount EXCEPT ![t] = <<VisibleBalance(t, r)>>]
            /\ rowLock' = [r \in Ids |->
                              IF r \in Matching(toIban[t]) THEN t ELSE rowLock[r]]
            /\ pc' = [pc EXCEPT ![t] = "updateTo"]
            /\ UNCHANGED <<account, nextId, fromIban, toIban, amount, fromAccount,
                           txWrites, err, request, reply>>

\* updateBalance(toIban, toAccount.Balance+amount)
updateBalanceTo(t) ==
    /\ pc[t] = "updateTo"
    /\ updateBalance(t, toIban[t], Float64(toAccount[t][1] + amount[t]))
    /\ pc' = [pc EXCEPT ![t] = "commit"]
    /\ UNCHANGED <<account, nextId, fromIban, toIban, amount, fromAccount,
                   toAccount, err, request, reply>>

\* return tx.Commit()
Commit(t) ==
    /\ pc[t] = "commit"
    /\ account' = AfterCommit(t)
    /\ rowLock' = ReleaseLocks(t)
    /\ txWrites' = [txWrites EXCEPT ![t] = NoWrites]
    /\ pc' = [pc EXCEPT ![t] = "done"]
    /\ UNCHANGED <<nextId, fromIban, toIban, amount, fromAccount, toAccount, err, request, reply>>

\* Any statement sent to the store may come back with an error (connection
\* lost, request context cancelled): if err != nil { return err }.
StoreFailure(t) ==
    /\ pc[t] \in StoreSteps
    /\ ReturnErr(t, ErrStore)
    /\ UNCHANGED <<nextId, fromIban, toIban, amount, fromAccount, toAccount, request, reply>>

(* ------------------------- waiting and deadlock ------------------------ *)

\* The rows the next statement of t has to lock.
Needs(t) ==
    IF pc[t] \in {"lockFrom", "updateFrom"} THEN Matching(fromIban[t])
    ELSE IF pc[t] \in {"lockTo", "updateTo"} THEN Matching(toIban[t])
    ELSE {}

\* The transfers t waits for.
WaitsFor(t) == {rowLock[r] : r \in Needs(t)} \ {0, t}

RECURSIVE Reach(_, _)
Reach(S, n) ==
    IF n = 0 THEN S ELSE Reach(S \cup UNION {WaitsFor(u) : u \in S}, n - 1)

\* A store that never detects a cycle of waiting transactions.
InCycleNever(t) == FALSE

\* t waits in a cycle of transactions each waiting for the next one's lock.
InCycle(t) == WaitsFor(t) # {} /\ t \in Reach(WaitsFor(t), NumTransfers)

\* PostgreSQL's deadlock detector aborts a transaction of the cycle; its
\* statement returns the error and TransferFunds returns it.
DeadlockAbort(t) ==
    /\ InCycle(t)
    /\ ReturnErr(t, ErrDeadlock)
    /\ UNCHANGED <<nextId, fromIban, toIban, amount, fromAccount, toAccount, request, reply>>

(* --------------------------- the /transfer route ----------------------- *)

\* os.Getenv("JWT_SECRET"), and a key that is not the server's.
JwtSecret == "JWT_SECRET"
Keys == {JwtSecret, "another key"}

\* A token string, by what a parser finds in it: the IBAN claim, the key its
\* signature was made with, and whether its ExpiresAt has passed (an hour
\* after it was issued).
Tokens == [iban : Ibans, key : Keys, expired : BOOLEAN]

\* CreateToken: HS256 over the IBAN claim with the server's key.
CreateToken(iban) == [iban |-> iban, key |-> JwtSecret, expired |-> FALSE]

\* A validation that does not look at the expiry.
ValidateTokenAnyExpiry(tok) ==
    IF tok.key = JwtSecret THEN <<[iban |-> tok.iban]>> ELSE <<>>

\* ValidateToken: <<claims>> when the signature verifies under the server's
\* key and the token has not expired, <<>> for the error.
ValidateToken(tok) ==
    IF tok.key = JwtSecret /\ ~tok.expired THEN <<[iban |-> tok.iban]>> ELSE <<>>

\* The Authorization header, by what strings.Split(authHeader, " ") makes of
\* it: the number of parts (0 for the empty header), the first part and the
\* token in second place.
Headers ==
    {[parts |-> 2, scheme |-> "Bearer", token |-> tok] : tok \in Tokens}
    \cup {[parts |-> n, scheme |-> "Bearer", token |-> CreateToken(1)] : n \in {1, 3}}
    \cup {[parts |-> 2, scheme |-> "Basic", token |-> CreateToken(1)],
          [parts |-> 0, scheme |-> "", token |-> CreateToken(1)]}

\* The bodies of /transfer requests: a JSON object with the two fields of
\* TransferRequest and one it does not declare; text that is not JSON; and
\* the JSON value null.
Bodies ==
    [json : {"object"}, toAccountIban : Ibans, amount : {0, Unit, 4 * Unit},
     fromAccountIban : Ibans]
    \cup {[json |-> j, toAccountIban |-> 1, amount |-> 1, fromAccountIban |-> 1] :
             j \in {"malformed", "null"}}

\* validateTokenMiddleware: the error it answers with, "nil" when it calls
\* the next handler.
MiddlewareError(header) ==
    IF header.parts = 0 THEN "Authorization header is required"
    ELSE IF header.parts # 2 \/ header.scheme # "Bearer"
    THEN "Authorization header must be in the format 'Bearer {token}'"
    ELSE IF ValidateToken(header.token) = <<>> THEN "Access Denied"
    ELSE "nil"

\* json.NewDecoder(r.Body).Decode(&transferReq): the declared fields.
Decode(body) == [toAccountIban |-> body.toAccountIban, amount |-> body.amount]

\* The error Decode returns, "nil" for none.
DecodeError(body) ==
    IF body.json = "malformed" THEN "invalid character looking for beginning of value"
    ELSE "nil"

\* Decode(&transferReq) of null sets the pointer transferReq to nil, and
\* transferReq.ToAccountIban panics: the server recovers, closes the
\* connection and writes no response.
Panics(body) == body.json = "null"
ErrPanic == "runtime error: invalid memory address or nil pointer dereference"

\* A handler that takes the source account from the request body.
fromAccountIbanOfBody(claims, body) == body.fromAccountIban

\* fromAccountIban := claims.IBAN
fromAccountIban(claims, body) == claims.iban

\* POST /transfer: validateTokenMiddleware, then handleTransfer up to its call
\* of TransferFunds. Requests are numbered in the order they arrive.
handleTransfer(t, header, body) ==
    /\ request[t] = NoRequest
    /\ t \in Callers
    /\ \A u \in Transfers : u < t => request[u] # NoRequest
    /\ request' = [request EXCEPT ![t] = <<[header |-> header, body |-> body]>>]
    /\ IF MiddlewareError(header) # "nil" \/ DecodeError(body) # "nil" \/ Panics(body)
       THEN UNCHANGED <<account, nextId, rowLock, pc, fromIban, toIban, amount,
                        fromAccount, toAccount, txWrites, err, reply>>
       ELSE LET claims == ValidateToken(header.token)[1]
                transferReq == Decode(body)
            IN  TransferFunds(t, fromAccountIban(claims, body),
                              transferReq.toAccountIban, transferReq.amount)

\* A handler wrapper that drops the error of TransferFunds and answers
\* success whenever the call has returned.
ResponseIgnoringError(t) ==
    LET e == MiddlewareError(request[t][1].header)
        d == DecodeError(request[t][1].body)
    IN  IF e # "nil" THEN [code |-> 400, body |-> [error |-> e]]
        ELSE IF d # "nil" THEN [code |-> 400, body |-> [error |-> d]]
        ELSE IF Panics(request[t][1].body) THEN [code |-> 0, body |-> [error |-> ErrPanic]]
        ELSE IF pc[t] # "done" THEN [code |-> 0, body |-> [error |-> "nil"]]
        ELSE [code |-> 200, body |-> [status |-> "success"]]

\* What the client of request t has been sent (code 0: nothing): the
\* middleware's error, the decoder's error, nothing after a panic, or, once
\* TransferFunds has returned, makeHTTPHandleFunc's 400 with its error or
\* handleTransfer's 200.
Response(t) ==
    LET e == MiddlewareError(request[t][1].header)
        d == DecodeError(request[t][1].body)
    IN  IF e # "nil" THEN [code |-> 400, body |-> [error |-> e]]
        ELSE IF d # "nil" THEN [code |-> 400, body |-> [error |-> d]]
        ELSE IF Panics(request[t][1].body) THEN [code |-> 0, body |-> [error |-> ErrPanic]]
        ELSE IF pc[t] # "done" THEN [code |-> 0, body |-> [error |-> "nil"]]
        ELSE IF err[t] # "nil" THEN [code |-> 400, body |-> [error |-> err[t]]]
        ELSE [code |-> 200, body |-> [status |-> "success"]]

(* --------------------------- the account routes ----------------------- *)

\* The passwords of requests, and the instants (in nanoseconds) at which
\* accounts are created: one on a whole microsecond, one between two.
Passwords == {"p", "q"}
Clock == {3000, 3400}

\* CreateAccountRequest and LoginRequest as decoded from the request body.
CreateAccountRequests == [firstName : {"first"}, lastName : {"last"}, password : Passwords]
LoginRequests == [iban : Ibans, password : Passwords]

\* A password check that lets every password through.
checkPasswordHashAny(password, hash) == TRUE

\* bcrypt.CompareHashAndPassword(hash, password) == nil
checkPasswordHash(password, hash) == hash = HashPassword(password)

\* POST /accounts: NewAccount, CreateAccount (which sets account.ID from
\* RETURNING id), and the account written back as it is in memory.
handleCreateAccount(createReq, id, iban, balance, now) ==
    LET acc == NewAccount(createReq.firstName, createReq.lastName,
                          createReq.password, id, iban, balance, now)
    IN  /\ CreateAccount(acc)
        /\ reply' = [op |-> "create", arg |-> createReq, code |-> 200,
                     body |-> [acc EXCEPT !.id = nextId]]

\* GET /accounts/{id}: GetAccountById, answered with the row or with
\* fmt.Errorf("Account with id %d not found", id).
handleGetAccount(id) ==
    /\ reply' = IF id \in DOMAIN account
                THEN [op |-> "get", arg |-> [id |-> id], code |-> 200,
                      body |-> scanAccount(id)]
                ELSE [op |-> "get", arg |-> [id |-> id], code |-> 400,
                      body |-> [error |-> "Account with id %d not found", arg |-> id]]
    /\ UNCHANGED <<account, nextId, rowLock, pc, fromIban, toIban, amount,
                   fromAccount, toAccount, txWrites, err, request>>

\* DELETE /accounts/{id}: DeleteAccount, answered with {"deleted": id}.
handleDeleteAccount(id) ==
    /\ DeleteAccount(id)
    /\ reply' = [op |-> "delete", arg |-> [id |-> id], code |-> 200,
                 body |-> [deleted |-> id]]

\* POST /login: GetAccountByIban (the first row the store returns for the
\* IBAN), checkPasswordHash, CreateToken.
handleLogin(loginReq) ==
    /\ IF Matching(loginReq.iban) = {}
       THEN reply' = [op |-> "login", arg |-> loginReq, code |-> 400,
                      body |-> [error |-> "Account with IBAN number %s not found",
                                arg |-> loginReq.iban]]
       ELSE \E r \in Matching(loginReq.iban) :
               reply' = IF checkPasswordHash(loginReq.password,
                                             account[r].encryptedPassword)
                        THEN [op |-> "login", arg |-> loginReq, code |-> 200,
                              body |-> [iban |-> loginReq.iban,
                                        token |-> CreateToken(loginReq.iban)]]
                        ELSE [op |-> "login", arg |-> loginReq, code |-> 400,
                              body |-> [error |-> "Access Denied"]]
    /\ UNCHANGED <<account, nextId, rowLock, pc, fromIban, toIban, amount,
                   fromAccount, toAccount, txWrites, err, request>>

(* --------------------------- the specification ------------------------- *)

Step(t) ==
    \/ lockAccountFrom(t)
    \/ CheckBalance(t)
    \/ updateBalanceFrom(t)
    \/ lockAccountTo(t)
    \/ updateBalanceTo(t)
    \/ Commit(t)

\* The store as its callers drive it: accounts are created and deleted and
\* funds are transferred, with any arguments (the delete of an id that has no
\* row changes nothing).
Next ==
    \/ \E i \in Ibans, b \in NewBalances :
           CreateAccount(HolderAccount(i, b)) /\ UNCHANGED reply
    \/ \E id \in DOMAIN account : DeleteAccount(id) /\ UNCHANGED reply
    \/ \E t \in Transfers, f \in Ibans, d \in Ibans, a \in Amounts :
           TransferFunds(t, f, d, a) /\ UNCHANGED request
    \/ \E t \in Transfers : Step(t)
    \/ \E t \in Transfers : StoreFailure(t)
    \/ \E t \in Transfers : DeadlockAbort(t)

Spec == Init /\ [][Next]_vars

(* ---------------- two transfers in opposite directions ---------------- *)

\* Two accounts of one whole unit each, and two calls already made: 1 moves
\* an amount from IBAN 1 to IBAN 2, 2 moves one from IBAN 2 to IBAN 1. Every
\* amount is at most both balances, and every balance that can arise is
\* exactly representable.
InitOpposite ==
    /\ account = [r \in {1, 2} |-> InsertedRow(HolderAccount(r, Unit))]
    /\ nextId = 3
    /\ rowLock = [r \in Ids |-> 0]
    /\ pc = [t \in Transfers |-> IF t <= 2 THEN "lockFrom" ELSE "idle"]
    /\ fromIban = [t \in Transfers |-> IF t = 1 THEN 1 ELSE IF t = 2 THEN 2 ELSE 0]
    /\ toIban = [t \in Transfers |-> IF t = 1 THEN 2 ELSE IF t = 2 THEN 1 ELSE 0]
    /\ \E a1, a2 \in 1..Unit :
           amount = [t \in Transfers |-> IF t = 1 THEN a1 ELSE IF t = 2 THEN a2 ELSE 0]
    /\ fromAccount = [t \in Transfers |-> <<>>]
    /\ toAccount = [t \in Transfers |-> <<>>]
    /\ txWrites = [t \in Transfers |-> NoWrites]
    /\ err = [t \in Transfers |-> "nil"]
    /\ request = [t \in Transfers |-> NoRequest]
    /\ reply = NoReply

\* The store does not fail and nobody else touches the table: the two calls
\* run their statements, and the deadlock detector does its work.
NextOpposite ==
    \/ \E t \in Transfers : Step(t)
    \/ \E t \in Transfers : DeadlockAbort(t)

SpecOpposite == InitOpposite /\ [][NextOpposite]_vars

(* ------------------ N transfers out of one source ---------------------- *)

\* The balances the source starts with: whole units.
SourceBalances == {Unit, 3 * Unit, 4 * Unit}

\* The source (IBAN 1) holds S, the destination (IBAN 2) nothing, and all
\* NumTransfers calls move the same amount x > 0 from the source to the
\* destination, where fewer than NumTransfers times x fit into S.
InitSameSource ==
    /\ \E S \in SourceBalances :
           account = [r \in {1, 2} |->
                         InsertedRow(HolderAccount(r, IF r = 1 THEN S ELSE 0))]
    /\ nextId = 3
    /\ rowLock = [r \in Ids |-> 0]
    /\ pc = [t \in Transfers |-> "lockFrom"]
    /\ fromIban = [t \in Transfers |-> 1]
    /\ toIban = [t \in Transfers |-> 2]
    /\ \E x \in 1..(4 * Unit) :
           /\ Representable(x)
           /\ account[1].balance \div x < NumTransfers
           /\ amount = [t \in Transfers |-> x]
    /\ fromAccount = [t \in Transfers |-> <<>>]
    /\ toAccount = [t \in Transfers |-> <<>>]
    /\ txWrites = [t \in Transfers |-> NoWrites]
    /\ err = [t \in Transfers |-> "nil"]
    /\ request = [t \in Transfers |-> NoRequest]
    /\ reply = NoReply

NextSameSource == \E t \in Transfers : Step(t)

SpecSameSource == InitSameSource /\ [][NextSameSource]_vars

(* ------------------------ transfers around a ring ---------------------- *)

\* The neighbours of t on the ring of the calls.
RingNext(t) == (t % NumTransfers) + 1
RingPrev(t) == ((t + NumTransfers - 2) % NumTransfers) + 1

\* As many accounts as there are calls, one whole unit each; call t moves the
\* smallest amount out of the account with IBAN t into one of its two
\* neighbours on the ring, so that the calls may form chains, pairs in
\* opposite directions, and a cycle through all the accounts.
InitRing ==
    /\ account = [r \in Transfers |-> InsertedRow(HolderAccount(r, Unit))]
    /\ nextId = NumTransfers + 1
    /\ rowLock = [r \in Ids |-> 0]
    /\ pc = [t \in Transfers |-> "lockFrom"]
    /\ fromIban = [t \in Transfers |-> t]
    /\ toIban \in [Transfers -> Transfers]
    /\ \A t \in Transfers : toIban[t] \in {RingNext(t), RingPrev(t)}
    /\ amount = [t \in Transfers |-> 1]
    /\ fromAccount = [t \in Transfers |-> <<>>]
    /\ toAccount = [t \in Transfers |-> <<>>]
    /\ txWrites = [t \in Transfers |-> NoWrites]
    /\ err = [t \in Transfers |-> "nil"]
    /\ request = [t \in Transfers |-> NoRequest]
    /\ reply = NoReply

NextRing ==
    \/ \E t \in Transfers : Step(t)
    \/ \E t \in Transfers : StoreFailure(t)
    \/ \E t \in Transfers : DeadlockAbort(t)

\* Every call's goroutine keeps running its statements whenever the store
\* lets it, and the store's deadlock detector keeps running; nothing is
\* assumed about store failures.
FairSpecRing ==
    /\ InitRing
    /\ [][NextRing]_vars
    /\ \A t \in Transfers : WF_vars(Step(t)) /\ WF_vars(DeadlockAbort(t))

\* The same calls with nothing assumed about their progress.
SpecRing == InitRing /\ [][NextRing]_vars

(* ------------------ two transfers on disjoint pairs ------------------- *)

\* The two calls of this specification, and the pair of accounts of each:
\* call 1 has the accounts with IBAN 1 and 2, call 2 those with IBAN 3 and 4.
PairCalls == {1, 2}
PairOf(t) == {2 * t - 1, 2 * t}

\* What the accounts hold at the start: three whole units in the first of
\* each pair, nothing in the second.
PairBalance(r) == IF r % 2 = 1 THEN 3 * Unit ELSE 0

\* The amounts of the two calls: covered by three units, or not.
PairAmounts == {1, Unit, 4 * Unit}

\* Four accounts, and two calls under way that have no account in common, in
\* either direction and with any of the amounts.
InitDisjoint ==
    /\ account = [r \in 1..4 |-> InsertedRow(HolderAccount(r, PairBalance(r)))]
    /\ nextId = 5
    /\ rowLock = [r \in Ids |-> 0]
    /\ pc = [t \in Transfers |-> IF t \in PairCalls THEN "lockFrom" ELSE "idle"]
    /\ fromIban \in [Transfers -> 0..4]
    /\ toIban \in [Transfers -> 0..4]
    /\ amount \in [Transfers -> PairAmounts \cup {0}]
    /\ \A t \in Transfers :
          IF t \in PairCalls
          THEN /\ fromIban[t] \in PairOf(t)
               /\ toIban[t] \in PairOf(t) \ {fromIban[t]}
               /\ amount[t] \in PairAmounts
          ELSE fromIban[t] = 0 /\ toIban[t] = 0 /\ amount[t] = 0
    /\ fromAccount = [t \in Transfers |-> <<>>]
    /\ toAccount = [t \in Transfers |-> <<>>]
    /\ txWrites = [t \in Transfers |-> NoWrites]
    /\ err = [t \in Transfers |-> "nil"]
    /\ request = [t \in Transfers |-> NoRequest]
    /\ reply = NoReply

\* The two calls run their statements, and the store may fail any of them.
NextDisjoint ==
    \/ \E t \in Transfers : Step(t)
    \/ \E t \in Transfers : StoreFailure(t)

SpecDisjoint == InitDisjoint /\ [][NextDisjoint]_vars

(* ---------------------- requests to the /transfer route --------------- *)

\* Two accounts of three whole units each, and no request yet.
InitTransferRoute ==
    /\ account = [r \in {1, 2} |-> InsertedRow(HolderAccount(r, 3 * Unit))]
    /\ nextId = 3
    /\ rowLock = [r \in Ids |-> 0]
    /\ pc = [t \in Transfers |-> "idle"]
    /\ fromIban = [t \in Transfers |-> 0]
    /\ toIban = [t \in Transfers |-> 0]
    /\ amount = [t \in Transfers |-> 0]
    /\ fromAccount = [t \in Transfers |-> <<>>]
    /\ toAccount = [t \in Transfers |-> <<>>]
    /\ txWrites = [t \in Transfers |-> NoWrites]
    /\ err = [t \in Transfers |-> "nil"]
    /\ request = [t \in Transfers |-> NoRequest]
    /\ reply = NoReply

\* Clients send /transfer requests with any header and body; the transfers
\* they start run against the store, while accounts are deleted.
NextTransferRoute ==
    \/ \E t \in Transfers, h \in Headers, b \in Bodies : handleTransfer(t, h, b)
    \/ \E id \in DOMAIN account : DeleteAccount(id) /\ UNCHANGED reply
    \/ \E t \in Transfers : Step(t)
    \/ \E t \in Transfers : StoreFailure(t)
    \/ \E t \in Transfers : DeadlockAbort(t)

SpecTransferRoute == InitTransferRoute /\ [][NextTransferRoute]_vars

(* ------------------- deletions while transfers run -------------------- *)

\* Two accounts with IBANs 1 and 2 are deleted, in any order and at any
\* moment, while transfers between these IBANs are called and run: an IBAN
\* that matches no row is the IBAN of a deleted account.
NextDeletion ==
    \/ \E id \in DOMAIN account : DeleteAccount(id) /\ UNCHANGED reply
    \/ \E t \in Transfers, f \in Ibans, d \in Ibans, a \in Amounts :
           TransferFunds(t, f, d, a) /\ UNCHANGED request
    \/ \E t \in Transfers : Step(t)
    \/ \E t \in Transfers : StoreFailure(t)
    \/ \E t \in Transfers : DeadlockAbort(t)

SpecDeletion == InitTransferRoute /\ [][NextDeletion]_vars

(* ---------------------- requests to the account routes --------------- *)

\* Clients create, read and delete accounts and log in, with any arguments,
\* starting from the empty table; each request is served in one statement.
NextAccounts ==
    \/ \E createReq \in CreateAccountRequests, id \in {0, 1}, iban \in Ibans,
          balance \in NewBalances, now \in Clock :
           handleCreateAccount(createReq, id, iban, balance, now)
    \/ \E id \in Ids : handleGetAccount(id)
    \/ \E id \in Ids : handleDeleteAccount(id)
    \/ \E loginReq \in LoginRequests : handleLogin(loginReq)

SpecAccounts == Init /\ [][NextAccounts]_vars

(* ------------------------------ properties ----------------------------- *)

RECURSIVE SumOver(_, _)
SumOver(tbl, rows) ==
    IF rows = {} THEN 0
    ELSE LET r == CHOOSE x \in rows : TRUE
         IN  tbl[r].balance + SumOver(tbl, rows \ {r})

\* The sum of the committed balances.
Total(tbl) == SumOver(tbl, DOMAIN tbl)

\* No two rows of the table carry the same IBAN.
UniqueIbans == \A r1, r2 \in DOMAIN account :
                  account[r1].iban = account[r2].iban => r1 = r2

\* This step is a step of transfer t.
StepOf(t) == pc'[t] # pc[t]

\* This step is the commit of transfer t.
Commits(t) == pc[t] = "commit" /\ pc'[t] = "done" /\ err'[t] = "nil"

Finished(t) == pc[t] = "done"

\* C1: a transfer between two existing, distinct accounts with 0 < amount <=
\* the source balance read under lock leaves, at commit, the source at
\* exactly its previous balance minus amount, the destination at exactly its
\* previous balance plus amount, and their sum as it was.
C1_DebitCreditExact ==
    [][\A t \in Transfers :
          (/\ Commits(t)
           /\ UniqueIbans
           /\ fromIban[t] # toIban[t]
           /\ amount[t] > 0
           /\ amount[t] <= fromAccount[t][1])
          => \A s \in Matching(fromIban[t]), d \in Matching(toIban[t]) :
                /\ account'[s].balance = account[s].balance - amount[t]
                /\ account'[d].balance = account[d].balance + amount[t]
                /\ account'[s].balance + account'[d].balance
                     = account[s].balance + account[d].balance]_vars

\* C2: a transfer whose amount exceeds the source balance read under lock
\* returns "Balance not sufficient", and the committed table is as it was:
\* the call has written nothing and its rollback changes nothing.
C2_InsufficientFunds ==
    /\ [](\A t \in Transfers : pc[t] \in {"lockFrom", "check"} => txWrites[t] = NoWrites)
    /\ [][\A t \in Transfers :
             (pc[t] = "check" /\ amount[t] > fromAccount[t][1] /\ StepOf(t))
             => /\ pc'[t] = "done"
                /\ err'[t] = ErrBalance
                /\ account' = account
                /\ txWrites'[t] = NoWrites]_vars

\* A transfer has returned "Balance not sufficient" for an amount above the
\* balance it read, and the source row still holds that balance.
C2_Witness ==
    \E t \in Transfers :
        /\ Finished(t) /\ err[t] = ErrBalance
        /\ amount[t] > fromAccount[t][1]
        /\ \E r \in Matching(fromIban[t]) : account[r].balance = fromAccount[t][1]

C4_CommittedSumConstant ==
    [][(/\ DOMAIN account' = DOMAIN account
        /\ UniqueIbans
        /\ \A t \in Transfers : Commits(t) => amount[t] > 0)
          => Total(account') = Total(account)]_vars

\* C5 (under SpecOpposite): once the two opposite transfers have returned,
\* both have committed and the two balances add up to what they added up to
\* before.
C5_OppositeBothCommit ==
    (Finished(1) /\ Finished(2))
    => /\ err[1] = "nil"
       /\ err[2] = "nil"
       /\ Total(account) = 2 * Unit

\* C6: a transfer between two accounts locks the row of the smaller routing
\* id first: it never holds the lock of the larger one without holding the
\* lock of the smaller one.
C6_LockOrder ==
    \A t \in Transfers :
        LET lo == IF fromIban[t] < toIban[t] THEN fromIban[t] ELSE toIban[t]
            hi == IF fromIban[t] < toIban[t] THEN toIban[t] ELSE fromIban[t]
        IN  (/\ pc[t] \notin {"idle", "done"}
             /\ lo # hi
             /\ Matching(lo) # {}
             /\ \E r \in Matching(hi) : rowLock[r] = t)
            => \E r \in Matching(lo) : rowLock[r] = t

\* The balance the source held before any of the transfers: the largest
\* balance a transfer has read under the lock.
SourceBefore ==
    LET reads == {fromAccount[t][1] : t \in {u \in Transfers : fromAccount[u] # <<>>}}
    IN  CHOOSE m \in reads : \A v \in reads : v <= m

\* C7 (under SpecSameSource): once the N transfers of amount x out of a
\* source holding S have returned, exactly k = S \div x of them have
\* committed, the other N - k have returned "Balance not sufficient", and
\* the source holds S - k * x.
C7_ExactlyKSucceed ==
    (\A t \in Transfers : Finished(t))
    => LET x == amount[1]
           k == SourceBefore \div x
       IN  /\ Cardinality({t \in Transfers : err[t] = "nil"}) = k
           /\ Cardinality({t \in Transfers : err[t] = ErrBalance}) = NumTransfers - k
           /\ account[1].balance = SourceBefore - k * x

\* C8: every committed balance is >= 0.
C8_BalanceNonNegative ==
    \A r \in DOMAIN account : account[r].balance >= 0

\* C9: a transfer whose amount is zero or negative fails (the claim: with
\* InvalidAmount, an error TransferFunds has no statement to return).
C9_NonPositiveAmountFails ==
    \A t \in Transfers : (Finished(t) /\ amount[t] <= 0) => err[t] # "nil"

\* C10: a transfer of a positive amount whose source IBAN is its destination
\* IBAN fails (the claim: with InvalidTransfer, an error TransferFunds has no
\* statement to return).
C10_SelfTransferFails ==
    \A t \in Transfers :
        (Finished(t) /\ fromIban[t] = toIban[t] /\ amount[t] > 0) => err[t] # "nil"

\* C11: a transfer whose source, or whose destination, IBAN matches no row
\* returns the store's no-rows error at the lock statement that found
\* nothing (unless the statement itself failed), and that return leaves the
\* committed table as it was: with the destination missing, the debit the
\* transaction has written for the source is rolled back, not committed.
C11_MissingAccountFails ==
    [][\A t \in Transfers :
          (/\ StepOf(t)
           /\ \/ pc[t] = "lockFrom" /\ Matching(fromIban[t]) = {}
              \/ pc[t] = "lockTo" /\ Matching(toIban[t]) = {}
           /\ err'[t] # ErrStore)
          => /\ pc'[t] = "done"
             /\ err'[t] = ErrNoRows
             /\ account' = account
             /\ txWrites'[t] = NoWrites]_vars

\* A transfer of a positive amount has found its source, written the debit,
\* found no destination and returned the no-rows error; the destination IBAN
\* still matches no row and the source row holds the balance the transfer
\* read.
C11_Witness ==
    \E t \in Transfers :
        /\ Finished(t) /\ err[t] = ErrNoRows
        /\ fromAccount[t] # <<>> /\ toAccount[t] = <<>>
        /\ amount[t] > 0
        /\ Matching(toIban[t]) = {}
        /\ \E r \in Matching(fromIban[t]) : account[r].balance = fromAccount[t][1]

\* C12: transfers that share an account are serialized on its row. Every
\* uncommitted balance write lies on a row whose lock the writer holds, no
\* two open transactions have written the same row, and from the moment a
\* transfer has read its source (its destination) under the lock until it
\* commits or rolls back, the row it read is locked by it and still shows the
\* balance it read: nobody else has written it in between.
C12_RowLockExclusive ==
    \A t \in Transfers :
        /\ \A r \in DOMAIN txWrites[t] : rowLock[r] = t
        /\ \A u \in Transfers \ {t} : DOMAIN txWrites[t] \cap DOMAIN txWrites[u] = {}
        /\ pc[t] \in {"check", "updateFrom", "lockTo", "updateTo", "commit"}
              => \E r \in Matching(fromIban[t]) :
                      rowLock[r] = t /\ account[r].balance = fromAccount[t][1]
        /\ pc[t] = "updateTo"
              => \E r \in Matching(toIban[t]) :
                      rowLock[r] = t /\ VisibleBalance(t, r) = toAccount[t][1]

\* A transfer holds a row with an uncommitted write on it while another
\* transfer, whose source is that row, waits at its first lock statement.
C12_Witness ==
    \E t \in Transfers, u \in Transfers :
        /\ t # u
        /\ pc[u] = "lockFrom"
        /\ \E r \in Matching(fromIban[u]) : rowLock[r] = t /\ r \in DOMAIN txWrites[t]

\* C13 (under FairSpecRing): every transfer eventually returns, having
\* committed or with an error, whatever chains and cycles the concurrent
\* transfers form: no set of transfers waits forever for each other's row
\* locks.
C13_EveryTransferReturns ==
    <>(\A t \in Transfers : Finished(t))

\* Every transfer has locked and debited its source and waits for its
\* destination, whose lock the next transfer holds: one cycle of waiting
\* through all the transfers.
C13_Witness ==
    \A t \in Transfers : pc[t] = "lockTo" /\ InCycle(t)

\* C14 (under SpecTransferRoute): every TransferFunds call made for a
\* /transfer request has as its source the IBAN claim of the request's
\* token, a token signed with the server's key and not expired, and what it
\* debits are rows of that IBAN: nothing in the request body selects or
\* changes the debited account.
C14_SourceFromToken ==
    \A t \in Transfers :
        pc[t] # "idle"
        => /\ request[t] # NoRequest
           /\ LET h == request[t][1].header
              IN  /\ h.parts = 2 /\ h.scheme = "Bearer"
                  /\ h.token.key = JwtSecret /\ ~h.token.expired
                  /\ fromIban[t] = h.token.iban
                  /\ pc[t] = "lockTo"
                        => \A r \in DOMAIN txWrites[t] : account[r].iban = h.token.iban

\* A request whose body names another account as the source, and that one
\* as the destination too, has committed a transfer out of the token's
\* account.
C14_Witness ==
    \E t \in Transfers :
        /\ Finished(t) /\ err[t] = "nil"
        /\ request[t][1].body.fromAccountIban # request[t][1].header.token.iban
        /\ request[t][1].body.toAccountIban # request[t][1].header.token.iban
        /\ fromIban[t] = request[t][1].header.token.iban

\* The credential of request t is missing, malformed, invalid or expired.
BadCredential(t) ==
    LET h == request[t][1].header
    IN  \/ h.parts = 0
        \/ h.parts # 2
        \/ h.scheme # "Bearer"
        \/ h.token.key # JwtSecret
        \/ h.token.expired

\* C15 (under SpecTransferRoute): a /transfer request whose credential is
\* missing, not of the form 'Bearer {token}', invalid or expired is answered
\* with an error and TransferFunds is never called for it: the step that
\* serves it changes neither the table nor any call, and the request never
\* has a call, a lock or a write.
C15_BadCredentialRejected ==
    /\ [](\A t \in Transfers :
            (request[t] # NoRequest /\ BadCredential(t))
            => /\ pc[t] = "idle"
               /\ fromAccount[t] = <<>> /\ txWrites[t] = NoWrites
               /\ \A r \in Ids : rowLock[r] # t
               /\ Response(t).code = 400)
    /\ [][\A t \in Transfers :
             (request[t] = NoRequest /\ request'[t] # NoRequest /\ BadCredential(t)')
             => account' = account /\ pc' = pc /\ txWrites' = txWrites]_vars

\* A request carrying a token the server signed for an existing account, but
\* expired, has been answered "Access Denied" and has no call.
C15_Witness ==
    \E t \in Transfers :
        /\ request[t] # NoRequest
        /\ request[t][1].header.parts = 2 /\ request[t][1].header.scheme = "Bearer"
        /\ request[t][1].header.token.key = JwtSecret
        /\ request[t][1].header.token.expired
        /\ Matching(request[t][1].header.token.iban) # {}
        /\ pc[t] = "idle"
        /\ Response(t) = [code |-> 400, body |-> [error |-> "Access Denied"]]

\* C16: after any sequence of account creations and deletions no two stored
\* accounts have the same id (every row's id is one the serial sequence has
\* handed out, to that row alone) and no two have the same IBAN.
C16_UniqueIdentifiers ==
    /\ \A r \in DOMAIN account : r < nextId
    /\ \A r1 \in DOMAIN account, r2 \in DOMAIN account :
           r1 # r2 => account[r1].iban # account[r2].iban

\* C17 (under SpecDeletion): no transfer debits or credits a deleted
\* account. A row a transfer has locked or written stays stored until the
\* transfer has committed or rolled back; a transfer that comes to lock its
\* source, or its destination, after the account was deleted returns an
\* error and leaves every balance as it was; and a commit writes stored rows
\* only and brings no row back.
C17_NoTransferOnDeletedAccount ==
    /\ [](\A t \in Transfers :
            /\ \A r \in Ids : rowLock[r] = t => r \in DOMAIN account
            /\ DOMAIN txWrites[t] \subseteq DOMAIN account)
    /\ [][\A t \in Transfers :
             /\ (/\ StepOf(t)
                 /\ \/ pc[t] = "lockFrom" /\ Matching(fromIban[t]) = {}
                    \/ pc[t] = "lockTo" /\ Matching(toIban[t]) = {})
                => pc'[t] = "done" /\ err'[t] # "nil" /\ account' = account
             /\ Commits(t)
                => /\ DOMAIN account' = DOMAIN account
                   /\ \A r \in DOMAIN account :
                         account'[r] # account[r] => r \in DOMAIN txWrites[t]]_vars

\* The source account of a transfer was deleted before the transfer locked
\* it: the transfer has returned the no-rows error without reading a
\* balance, and the other account holds what it held.
C17_Witness ==
    \E t \in Transfers :
        /\ Finished(t) /\ err[t] = ErrNoRows
        /\ fromAccount[t] = <<>>
        /\ Matching(fromIban[t]) = {}
        /\ toIban[t] # fromIban[t]
        /\ \E r \in Matching(toIban[t]) : account[r].balance = 3 * Unit

\* This step writes the response of a request to the route op.
Replies(op) == reply' # reply /\ reply'.op = op

\* C18 (under SpecAccounts): a login is answered with a token only when a
\* stored account carries the IBAN and the password verifies against that
\* account's hash, and then with a token for that IBAN; an IBAN no stored
\* account carries is answered 'Account with IBAN number <iban> not found',
\* a password that verifies against no account of the IBAN 'Access Denied',
\* and neither answer carries a token.
C18_LoginIssuesToken ==
    [][Replies("login")
       => LET req == reply'.arg
              rows == Matching(req.iban)
          IN  /\ reply'.code = 200 <=> "token" \in DOMAIN reply'.body
              /\ reply'.code = 200
                    => /\ \E r \in rows :
                             account[r].encryptedPassword = HashPassword(req.password)
                       /\ reply'.body = [iban |-> req.iban,
                                         token |-> CreateToken(req.iban)]
              /\ rows = {}
                    => /\ reply'.code = 400
                       /\ reply'.body = [error |-> "Account with IBAN number %s not found",
                                         arg |-> req.iban]
              /\ (/\ rows # {}
                  /\ \A r \in rows :
                        account[r].encryptedPassword # HashPassword(req.password))
                    => /\ reply'.code = 400
                       /\ reply'.body = [error |-> "Access Denied"]]_vars

\* A login with the IBAN of a stored account and a password that is not
\* that account's has been answered 'Access Denied'.
C18_Witness ==
    /\ reply.op = "login"
    /\ reply.code = 400
    /\ reply.body = [error |-> "Access Denied"]
    /\ Matching(reply.arg.iban) # {}
    /\ \A r \in Matching(reply.arg.iban) :
          account[r].encryptedPassword # HashPassword(reply.arg.password)

\* C19 (under SpecAccounts): the delete of an id is answered with that id
\* and leaves no account with it; an id that was deleted, or never handed
\* out, is never stored again; and a get of an id that is not stored is
\* answered 'Account with id <id> not found'.
C19_GetAfterDelete ==
    /\ [](\A id \in Ids : id >= nextId => id \notin DOMAIN account)
    /\ [][/\ \A id \in Ids :
               (id < nextId /\ id \notin DOMAIN account) => id \notin DOMAIN account'
          /\ Replies("delete")
                => /\ reply'.code = 200
                   /\ reply'.body = [deleted |-> reply'.arg.id]
                   /\ reply'.arg.id \notin DOMAIN account'
          /\ (Replies("get") /\ reply'.arg.id \notin DOMAIN account)
                => /\ reply'.code = 400
                   /\ reply'.body = [error |-> "Account with id %d not found",
                                     arg |-> reply'.arg.id]]_vars

\* A get of an id that was handed out and deleted since has been answered
\* 'Account with id <id> not found'.
C19_Witness ==
    /\ reply.op = "get"
    /\ reply.code = 400
    /\ reply.arg.id < nextId
    /\ reply.arg.id \notin DOMAIN account

\* C20 (under SpecAccounts): a get of the id a creation has just returned,
\* with no request in between, is answered with a record equal in every
\* field to the one the creation returned.
C20_CreateGetRoundTrip ==
    [][(/\ reply.op = "create" /\ reply.code = 200
        /\ Replies("get")
        /\ reply'.arg.id = reply.body.id)
       => /\ reply'.code = 200
          /\ reply'.body = reply.body]_vars

\* C21 (under SpecAccounts): the account a creation answers with carries the
\* first and the last name of the request, an id that is not zero, an IBAN
\* (the decimal string of the number drawn, never empty) and a balance that
\* is not zero.
C21_CreatedAccountFilled ==
    (reply.op = "create" /\ reply.code = 200)
    => /\ reply.body.firstName = reply.arg.firstName
       /\ reply.body.lastName = reply.arg.lastName
       /\ reply.body.id # 0
       /\ reply.body.iban \in Ibans
       /\ reply.body.balance # 0

\* The failure kind of the answered transfer request t: a rejected
\* credential; a failure of the store; else, by the order in which a transfer
\* is validated, the amount, source against destination, then what the store
\* found.
FailureKind(t) ==
    LET b == request[t][1].body
        h == request[t][1].header
    IN  IF BadCredential(t) THEN "Unauthorized"
        ELSE IF b.json # "object" \/ pc[t] # "done" THEN "none"
        ELSE IF err[t] \in {ErrStore, ErrDeadlock} THEN "store failure"
        ELSE IF b.amount <= 0 THEN "InvalidAmount"
        ELSE IF b.toAccountIban = h.token.iban THEN "InvalidTransfer"
        ELSE IF err[t] = ErrNoRows THEN "AccountNotFound"
        ELSE IF err[t] = ErrBalance THEN "InsufficientFunds"
        ELSE "none"

\* C22 (under SpecTransferRoute): two transfer requests that have been
\* answered and whose failures are of different kinds have been sent
\* different responses (status and message).
C22_DistinctFailureResponses ==
    \A t \in Transfers, u \in Transfers :
        (/\ request[t] # NoRequest /\ request[u] # NoRequest
         /\ Response(t).code # 0 /\ Response(u).code # 0
         /\ FailureKind(t) # "none" /\ FailureKind(u) # "none"
         /\ FailureKind(t) # FailureKind(u))
        => Response(t) # Response(u)

\* The balance the update of transfer t has to have written to row r, computed
\* from the row's own committed balance, which cannot change while t holds the
\* row's lock: the debit of a source row, the credit of a destination row, both
\* in turn for a row that is source and destination.
WrittenFrom(t, r) ==
    LET debit == Float64(account[r].balance - amount[t])
    IN  IF account[r].iban = toIban[t] /\ pc[t] = "commit"
        THEN IF fromIban[t] = toIban[t]
             THEN Float64(debit + amount[t])
             ELSE Float64(account[r].balance + amount[t])
        ELSE debit

\* C23 (under Spec): every balance a transfer has written and not yet committed
\* is on a row whose lock its transaction holds, and is the value computed from
\* the balance of that row as it was when the lock was taken.
C23_WritesUnderLock ==
    \A t \in Transfers : \A r \in DOMAIN txWrites[t] :
        /\ r \in DOMAIN account
        /\ rowLock[r] = t
        /\ txWrites[t][r] = WrittenFrom(t, r)


\* The rows of the source account whose lock transfer t holds and whose
\* committed balance is the one t read.
SourceRead(t) ==
    {r \in Matching(fromIban[t]) :
        rowLock[r] = t /\ account[r].balance = fromAccount[t][1]}

\* C24 (under SpecTransferRoute): a transfer goes through lock source, check, write source,
\* lock destination, write destination, commit, in that order: before the
\* check has passed it has written nothing; from the check on, the balance
\* the check compares is the one read from a source row it holds the lock of;
\* past the check the amount is covered by that balance; the source is
\* written before the destination is read, the destination before the commit;
\* a refused transfer stopped at the check, a committed one went all the way.
C24_CheckUnderLockBeforeWrite ==
    \A t \in Transfers :
        /\ pc[t] \in {"idle", "lockFrom"} => fromAccount[t] = <<>>
        /\ pc[t] \in {"idle", "lockFrom", "check", "updateFrom"}
              => txWrites[t] = NoWrites /\ toAccount[t] = <<>>
        /\ pc[t] \in {"check", "updateFrom", "lockTo", "updateTo", "commit"}
              => fromAccount[t] # <<>> /\ SourceRead(t) # {}
        /\ pc[t] \in {"updateFrom", "lockTo", "updateTo", "commit"}
              => amount[t] <= fromAccount[t][1]
        /\ pc[t] \in {"lockTo", "updateTo"}
              => /\ DOMAIN txWrites[t] # {}
                 /\ \A r \in DOMAIN txWrites[t] : account[r].iban = fromIban[t]
        /\ pc[t] = "lockTo" => toAccount[t] = <<>>
        /\ pc[t] \in {"updateTo", "commit"} => toAccount[t] # <<>>
        /\ pc[t] = "commit"
              => /\ \E r \in DOMAIN txWrites[t] : account[r].iban = fromIban[t]
                 /\ \E r \in DOMAIN txWrites[t] : account[r].iban = toIban[t]
        /\ (pc[t] = "done" /\ err[t] = ErrBalance)
              => /\ fromAccount[t] # <<>> /\ toAccount[t] = <<>>
                 /\ amount[t] > fromAccount[t][1]
        /\ (pc[t] = "done" /\ err[t] = "nil")
              => /\ fromAccount[t] # <<>> /\ toAccount[t] # <<>>
                 /\ amount[t] <= fromAccount[t][1]

\* A transfer of a positive amount between two accounts is about to commit,
\* after another one was refused at the check.
C24_Witness ==
    \E t \in Transfers, u \in Transfers :
        /\ pc[t] = "commit" /\ amount[t] > 0 /\ fromIban[t] # toIban[t]
        /\ pc[u] = "done" /\ err[u] = ErrBalance

\* The transfers that have committed.
Committed == {t \in Transfers : pc[t] = "done" /\ err[t] = "nil"}

\* C25 (under SpecSameSource): whatever the interleaving of the transfers,
\* every committed balance is the initial one plus the amounts of the
\* committed transfers into the account minus those of the committed transfers
\* out of it: the source holds S minus x for each committed transfer, the
\* destination x for each, no update is lost.
C25_NoLostUpdate ==
    (\E t \in Transfers : fromAccount[t] # <<>>)
    => LET x == amount[1]
           k == Cardinality(Committed)
       IN  /\ account[1].balance = SourceBefore - k * x
           /\ account[2].balance = k * x

\* C26 (under SpecRing): the commit of a transfer changes nothing but the
\* balance of the rows that carry its source or its destination IBAN: no row
\* appears or disappears, every other row is as it was, and of the rows
\* written every column but the balance is as it was.
C26_CommitFrame ==
    [][\A t \in Transfers :
          Commits(t)
          => /\ DOMAIN account' = DOMAIN account
             /\ \A r \in DOMAIN account :
                   /\ account'[r] = [account[r] EXCEPT !.balance = account'[r].balance]
                   /\ account[r].iban \notin {fromIban[t], toIban[t]}
                         => account'[r] = account[r]]_vars

\* A transfer has committed: its source holds one less and its destination
\* one more than at the start, and an account that is neither holds what it
\* held.
C26_Witness ==
    \E t \in Committed :
        /\ \E r \in Matching(fromIban[t]) : account[r].balance = Unit - 1
        /\ \E r \in Matching(toIban[t]) : account[r].balance = Unit + 1
        /\ \E r \in DOMAIN account :
              /\ account[r].iban \notin {fromIban[t], toIban[t]}
              /\ account[r].balance = Unit

\* What a call of SpecDisjoint that has returned leaves when it runs alone:
\* the error it returned and the balances of its source and its destination.
AloneOutcome(t) ==
    LET s == PairBalance(fromIban[t])
        d == PairBalance(toIban[t])
    IN  IF amount[t] > s
        THEN [err |-> ErrBalance, source |-> s, destination |-> d]
        ELSE [err |-> "nil", source |-> Float64(s - amount[t]),
              destination |-> Float64(d + amount[t])]

\* C27 (under SpecDisjoint): of two transfers that have no account in common
\* neither ever waits for a lock; each can take its next statement whatever
\* the other has done; and once it has returned without a failure of the
\* store, its error and the balances of its two accounts are those it leaves
\* when it runs alone (after a failure of the store: the balances it found).
C27_DisjointIndependent ==
    \A t \in PairCalls :
        /\ WaitsFor(t) = {}
        /\ pc[t] \notin {"idle", "done"} => ENABLED Step(t)
        /\ pc[t] # "done"
              => \A r \in PairOf(t) : account[r].balance = PairBalance(r)
        /\ pc[t] = "done"
              => IF err[t] = ErrStore
                 THEN \A r \in PairOf(t) : account[r].balance = PairBalance(r)
                 ELSE /\ err[t] = AloneOutcome(t).err
                      /\ account[fromIban[t]].balance = AloneOutcome(t).source
                      /\ account[toIban[t]].balance = AloneOutcome(t).destination

\* Both transfers hold row locks at the same time, one about to commit a
\* covered amount, the other between its two updates.
C27_Witness ==
    /\ pc[1] = "commit" /\ amount[1] = Unit
    /\ pc[2] = "lockTo"
    /\ \E r \in PairOf(1) : rowLock[r] = 1
    /\ \E r \in PairOf(2) : rowLock[r] = 2

\* C28 (under SpecDeletion): a transfer never waits for a lock its own
\* transaction holds: whenever every row its next statement needs is free or
\* locked by itself, the statement can run; and in a transfer with source =
\* destination the second lock finds the row locked by the transfer itself,
\* can be taken at once, and reads the balance the transfer has just written.
C28_NoSelfWait ==
    \A t \in Transfers :
        /\ (/\ pc[t] \notin {"idle", "done"}
            /\ \A r \in Needs(t) : rowLock[r] \in {0, t})
           => ENABLED Step(t)
        /\ (pc[t] = "lockTo" /\ fromIban[t] = toIban[t])
           => /\ Matching(toIban[t]) # {}
              /\ \A r \in Matching(toIban[t]) : rowLock[r] = t
              /\ ENABLED lockAccountTo(t)
        /\ (pc[t] \in {"updateTo", "commit"} /\ fromIban[t] = toIban[t])
           => toAccount[t][1] = Float64(fromAccount[t][1] - amount[t])

\* A transfer with source = destination has taken its second lock and read
\* the balance it wrote, which is not the one it read first.
C28_Witness ==
    \E t \in Transfers :
        /\ pc[t] = "updateTo" /\ fromIban[t] = toIban[t]
        /\ amount[t] = Unit + 1
        /\ toAccount[t][1] = Float64(fromAccount[t][1] - amount[t])
        /\ toAccount[t] # fromAccount[t]
        /\ \A r \in Matching(toIban[t]) : rowLock[r] = t

\* C29 (under SpecTransferRoute): once a transfer has returned, with a commit or with any
\* error, its transaction holds the lock of no row (nor does a call that has
\* not begun).
C29_NoLockAfterReturn ==
    \A t \in Transfers :
        pc[t] \in {"idle", "done"} => \A r \in Ids : rowLock[r] # t

\* A transfer that held the locks of its source and of its destination has
\* returned an error of the store, and another transfer now holds the lock of
\* its source.
C29_Witness ==
    \E t \in Transfers, u \in Transfers :
        /\ u # t
        /\ pc[t] = "done" /\ err[t] = ErrStore
        /\ fromAccount[t] # <<>> /\ toAccount[t] # <<>>
        /\ fromIban[t] # toIban[t]
        /\ \E r \in Matching(fromIban[t]) : rowLock[r] = u

\* What the client of call t has been sent, nothing included.
Answer(t) ==
    IF request[t] = NoRequest THEN [code |-> 0, body |-> [error |-> "nil"]]
    ELSE Response(t)

====
